---- MODULE Spec2Model ----
(***************************************************************************)
(* Model of src/lib/mongodb.ts: the module-level initialisation (URI       *)
(* check, adoption of the process-wide cache slot global.mongoose) and the *)
(* async function connectDB, run on a JavaScript event loop.               *)
(*                                                                         *)
(* connectDB has one suspension point, the await of line 61.  Everything   *)
(* before it runs synchronously inside the caller's task; everything after *)
(* it runs as one promise-reaction job taken from the microtask queue.     *)
(* The model keeps that queue explicitly: jobs run in FIFO order, a job    *)
(* that is queued by running code goes to the tail, and a macrotask starts *)
(* only when the queue is empty.                                           *)
(*                                                                         *)
(* mongoose.connect is the external driver: every invocation opens an      *)
(* attempt that the environment later settles, either with a handle or     *)
(* with an error, both drawn from small sets.                              *)
(***************************************************************************)
EXTENDS Integers, Sequences, FiniteSets, TLC

\* Bounds of the model.
MaxCalls == 5        \* connectDB invocations in one behaviour
MaxQueue == 2        \* microtask-queue length up to which application code schedules further jobs

Null == 0
Modules == {1, 2}          \* the evaluations of the module (first import, hot reload) in one process
Handles == {"h1", "h2"}   \* handles the driver may resolve with
Errors == {"e1", "e2"}    \* errors the driver may reject with
NoError == "wrapped"       \* an error value that is none of the driver's
NoValue == "null"          \* null in a field that holds a handle or an error
EnvValues == {"absent", "empty", "set"}

VARIABLES
    uri,            \* process.env.MONGODB_URI: absent, the empty string, or a URI
    globalMongoose, \* global.mongoose: Null (undefined) or the cache record it refers to
    modState,       \* per module evaluation: "unloaded", "loaded" or "failed" (threw at line 20)
    cached,         \* per module evaluation: the record its variable `cached` refers to
    cache,          \* the MongooseCache records that exist: sequence of [conn, promise]
    attempts,       \* the driver's connect invocations, in order of invocation
    calls,          \* the connectDB invocations, in order of invocation; rec is the record
                    \* the `cached` variable of the called module evaluation refers to
    queue,          \* the microtask queue
    cur,            \* "run" while a task or an application job executes, "idle" between jobs
    calledVia,      \* history: the module evaluations connectDB has been called through
    firstConn       \* history: per cache record, the first handle stored in its conn field

vars == <<uri, globalMongoose, modState, cached, cache, attempts, calls, queue, cur,
          calledVia, firstConn>>

----------------------------------------------------------------------------
\* Pure parts of the source.

\* line 19: if (!MONGODB_URI) - undefined and "" are both falsy.
UriMissingOnlyUndefined(u) == u = "absent"
UriMissing(u) == u \in {"absent", "empty"}

\* line 28: global.mongoose || { conn: null, promise: null }
\* g is global.mongoose, n the number of records that exist; the result is
\* the record `cached` refers to (n + 1 is a freshly created record).
InitialCachedFresh(g, n) == n + 1
InitialCached(g, n) == IF g # Null THEN g ELSE n + 1

\* line 30-32: if (!global.mongoose) global.mongoose = cached
InitialGlobal(g, c) == IF g = Null THEN c ELSE g

\* line 43: if (cached.conn)
HasConnNever(rec) == FALSE
HasConn(rec) == rec.conn # NoValue

\* line 48: if (!cached.promise)
NeedsConnectAlways(rec) == TRUE
NeedsConnect(rec) == rec.promise = Null

\* line 64: cached.promise = null
CatchResetKeeps(rec) == rec
CatchReset(rec) == [rec EXCEPT !.promise = Null]

\* line 61: cached.conn = await cached.promise (fulfilled case)
StoreConn(rec, h) == [rec EXCEPT !.conn = h]

\* line 61-66: what the await of a settled promise yields: the fulfilment
\* value, or the rejection reason thrown into the catch block and rethrown.
AwaitOutcomeWrapped(att) ==
    IF att.state = "fulfilled" THEN <<"ok", att.value>> ELSE <<"err", NoError>>
AwaitOutcomeSwallowed(att) == <<"ok", att.value>>
AwaitOutcome(att) ==
    IF att.state = "fulfilled" THEN <<"ok", att.value>> ELSE <<"err", att.value>>

\* Promise reaction semantics: when a promise settles, one job per registered
\* reaction is queued, in registration order.
ResumeJobsFirstOnly(waiters) ==
    IF waiters = <<>> THEN <<>> ELSE <<[type |-> "resume", id |-> Head(waiters)]>>
ResumeJobs(waiters) ==
    [i \in 1..Len(waiters) |-> [type |-> "resume", id |-> waiters[i]]]

Settled(att) == att.state \in {"fulfilled", "rejected"}

----------------------------------------------------------------------------
Init ==
    /\ uri \in EnvValues
    /\ globalMongoose = Null
    /\ modState = [m \in Modules |-> "unloaded"]
    /\ cached = [m \in Modules |-> Null]
    /\ cache = <<>>
    /\ attempts = <<>>
    /\ calls = <<>>
    /\ queue = <<>>
    /\ cur = "idle"
    /\ calledVia = {}
    /\ firstConn = <<>>

\* A macrotask (an incoming request, a timer) starts: only with no microtask left.
StartTask ==
    /\ cur = "idle"
    /\ queue = <<>>
    /\ cur' = "run"
    /\ UNCHANGED <<uri, globalMongoose, modState, cached, cache, attempts, calls, queue, calledVia, firstConn>>

\* The running task or job returns to the event loop.
EndRun ==
    /\ cur = "run"
    /\ cur' = "idle"
    /\ UNCHANGED <<uri, globalMongoose, modState, cached, cache, attempts, calls, queue, calledVia, firstConn>>

\* Running application code schedules a further job (a .then or an await of
\* its own), which may call connectDB when it runs.
Schedule ==
    /\ cur = "run"
    /\ Len(queue) < MaxQueue
    /\ queue' = Append(queue, [type |-> "app", id |-> Null])
    /\ UNCHANGED <<uri, globalMongoose, modState, cached, cache, attempts, calls, cur, calledVia, firstConn>>

\* Lines 16-32: the module is evaluated (first import, or re-evaluation on a
\* hot reload).  Evaluations are numbered in the order they happen.
ModuleInit(m) ==
    /\ cur = "run"
    /\ modState[m] = "unloaded"
    /\ \A k \in Modules : k < m => modState[k] # "unloaded"
    /\ IF UriMissing(uri)
       THEN /\ modState' = [modState EXCEPT ![m] = "failed"]
            /\ UNCHANGED <<globalMongoose, cached, cache, firstConn>>
       ELSE LET c == InitialCached(globalMongoose, Len(cache)) IN
            /\ modState' = [modState EXCEPT ![m] = "loaded"]
            /\ cached' = [cached EXCEPT ![m] = c]
            /\ cache' = IF c > Len(cache)
                        THEN Append(cache, [conn |-> NoValue, promise |-> Null])
                        ELSE cache
            /\ firstConn' = IF c > Len(cache) THEN Append(firstConn, NoValue) ELSE firstConn
            /\ globalMongoose' = InitialGlobal(globalMongoose, c)
    /\ UNCHANGED <<uri, attempts, calls, queue, cur, calledVia>>

\* Lines 41-61: connectDB is called through module evaluation m and runs up
\* to its return (line 44) or its await (line 61).
ConnectDB(m) ==
    /\ cur = "run"
    /\ modState[m] = "loaded"
    /\ Len(calls) < MaxCalls
    /\ LET r == cached[m]
           rec == cache[r]
           c == Len(calls) + 1
       IN IF HasConn(rec)
          THEN /\ calls' = Append(calls, [rec |-> r, pc |-> "done", att |-> Null,
                                          started |-> FALSE, sawConn |-> TRUE,
                                          result |-> <<"ok", rec.conn>>])
               /\ UNCHANGED <<cache, attempts, queue>>
          ELSE LET start == NeedsConnect(rec)
                   a == IF start THEN Len(attempts) + 1 ELSE rec.promise
                   atts == IF start
                           THEN Append(attempts, [state |-> "inflight", outcome |-> "none",
                                                  value |-> NoValue, waiters |-> <<>>])
                           ELSE attempts
               IN /\ cache' = [cache EXCEPT ![r].promise = a]
                  /\ calls' = Append(calls, [rec |-> r, pc |-> "await", att |-> a,
                                             started |-> start, sawConn |-> FALSE,
                                             result |-> <<"none", NoValue>>])
                  /\ IF Settled(atts[a])
                     THEN /\ queue' = Append(queue, [type |-> "resume", id |-> c])
                          /\ attempts' = atts
                     ELSE /\ attempts' = [atts EXCEPT ![a].waiters = Append(@, c)]
                          /\ UNCHANGED queue
    /\ calledVia' = calledVia \cup {m}
    /\ UNCHANGED <<uri, globalMongoose, modState, cached, cur, firstConn>>

\* The driver settles the promise returned by mongoose.connect.  The promise
\* derived by .then at line 54 settles one reaction job later.
DriverSettle(a, outcome, v) ==
    /\ a \in 1..Len(attempts)
    /\ attempts[a].state = "inflight"
    /\ cur = "run" \/ queue = <<>>
    /\ attempts' = [attempts EXCEPT ![a].state = "settling",
                                    ![a].outcome = outcome,
                                    ![a].value = v]
    /\ queue' = Append(queue, [type |-> "reaction", id |-> a])
    /\ UNCHANGED <<uri, globalMongoose, modState, cached, cache, calls, cur, calledVia, firstConn>>

DriverResolve(a) == \E h \in Handles : DriverSettle(a, "fulfilled", h)
DriverReject(a) == \E e \in Errors : DriverSettle(a, "rejected", e)

\* Line 54-56: the reaction of the .then runs; cached.promise settles and
\* the continuations of all connectDB calls awaiting it are queued.
RunReaction ==
    /\ cur = "idle"
    /\ queue # <<>>
    /\ Head(queue).type = "reaction"
    /\ LET a == Head(queue).id IN
       /\ attempts' = [attempts EXCEPT ![a].state = attempts[a].outcome,
                                       ![a].waiters = <<>>]
       /\ queue' = Tail(queue) \o ResumeJobs(attempts[a].waiters)
    /\ UNCHANGED <<uri, globalMongoose, modState, cached, cache, calls, cur, calledVia, firstConn>>

\* Lines 59-68: a suspended connectDB call resumes after its await and runs
\* to its return or its throw.  That settles the promise connectDB returned,
\* so the continuation of its caller (application code, which may retry) is
\* queued as a job of its own.
Resume ==
    /\ cur = "idle"
    /\ queue # <<>>
    /\ Head(queue).type = "resume"
    /\ LET c == Head(queue).id
           r == calls[c].rec
           out == AwaitOutcome(attempts[calls[c].att])
           rec == IF out[1] = "ok" THEN StoreConn(cache[r], out[2]) ELSE CatchReset(cache[r])
       IN /\ cache' = [cache EXCEPT ![r] = rec]
          /\ firstConn' = IF firstConn[r] = NoValue /\ out[1] = "ok"
                          THEN [firstConn EXCEPT ![r] = rec.conn]
                          ELSE firstConn
          /\ calls' = [calls EXCEPT ![c].pc = "done",
                                    ![c].result = IF out[1] = "ok" THEN <<"ok", rec.conn>> ELSE out]
          /\ queue' = IF Len(Tail(queue)) < MaxQueue
                      THEN Append(Tail(queue), [type |-> "app", id |-> Null])
                      ELSE Tail(queue)
    /\ UNCHANGED <<uri, globalMongoose, modState, cached, attempts, cur, calledVia>>

\* An application job is taken from the queue and starts running.
RunApp ==
    /\ cur = "idle"
    /\ queue # <<>>
    /\ Head(queue).type = "app"
    /\ queue' = Tail(queue)
    /\ cur' = "run"
    /\ UNCHANGED <<uri, globalMongoose, modState, cached, cache, attempts, calls, calledVia, firstConn>>

Next ==
    \/ StartTask
    \/ EndRun
    \/ Schedule
    \/ \E m \in Modules : ModuleInit(m)
    \/ \E m \in Modules : ConnectDB(m)
    \/ \E a \in 1..MaxCalls : DriverResolve(a)
    \/ \E a \in 1..MaxCalls : DriverReject(a)
    \/ RunReaction
    \/ Resume
    \/ RunApp

Spec == Init /\ [][Next]_vars

\* The event loop: a running task or job returns, and the job at the head of
\* the microtask queue is then run.  At most one of the four is enabled.
EventLoopStep == EndRun \/ RunReaction \/ Resume \/ RunApp

\* The driver settles some attempt that is in flight.
DriverStep == \E a \in 1..MaxCalls : DriverResolve(a) \/ DriverReject(a)

\* The event loop keeps running, and the driver does not leave an attempt
\* unsettled forever (strong fairness: settling is possible only while a task
\* runs or the microtask queue is empty).
FairSpec ==
    /\ Spec
    /\ WF_vars(EventLoopStep)
    /\ SF_vars(DriverStep)

----------------------------------------------------------------------------
\* Derived quantities used by the properties.

AttemptIds == 1..Len(attempts)
CallIds == 1..Len(calls)
\* Number of invocations of mongoose.connect (line 54).
ConnectInvocations == Len(attempts)
\* Attempts issued and not yet settled by the driver.
InFlight == {a \in AttemptIds : attempts[a].state = "inflight"}
\* Attempts the driver resolved / rejected.
Resolved == {a \in AttemptIds : attempts[a].outcome = "fulfilled"}
Rejected == {a \in AttemptIds : attempts[a].outcome = "rejected"}

----------------------------------------------------------------------------
\* C1: starting from the empty cache, as long as no connect attempt has
\* settled, any number N >= 1 of connectDB calls has invoked the driver's
\* connect exactly once, and every caller is suspended on that one attempt,
\* which is the one the cache holds as its promise.
C1_SingleFlight ==
    (calls # <<>> /\ InFlight = AttemptIds) =>
        /\ ConnectInvocations = 1
        /\ \A c \in CallIds :
              /\ calls[c].pc = "await"
              /\ calls[c].att = 1
              /\ cache[calls[c].rec].promise = 1
        /\ attempts[1].waiters = [i \in CallIds |-> i]

C1_Witness ==
    /\ Len(calls) >= 3
    /\ InFlight = AttemptIds
    /\ ConnectInvocations = 1
    /\ Len(attempts[1].waiters) >= 3

\* C2: in every reachable state at most one driver connect attempt is in
\* flight (issued and not yet settled).
C2_AtMostOneInFlight == Cardinality(InFlight) <= 1

\* C3: once a connect attempt has succeeded and its handle has been stored in
\* the cache, every later connectDB call returns that identical handle (the
\* one first stored) and does not invoke the driver's connect.
C3_ReuseFirstHandle ==
    \A c \in CallIds :
        calls[c].sawConn =>
            /\ ~calls[c].started
            /\ calls[c].result = <<"ok", firstConn[calls[c].rec]>>

C5_FailureTransparent ==
    \A c \in CallIds :
        (calls[c].pc = "done" /\ calls[c].att # Null
            /\ attempts[calls[c].att].state = "rejected") =>
                calls[c].result = <<"err", attempts[calls[c].att].value>>

C5_Witness ==
    \E c, d \in CallIds :
        /\ c # d
        /\ calls[c].att = calls[d].att
        /\ calls[c].att # Null
        /\ calls[c].pc = "done" /\ calls[d].pc = "done"
        /\ calls[c].result = <<"err", "e2">>
        /\ calls[d].result = <<"err", "e2">>

\* C6: all connectDB calls that complete successfully return one and the same
\* handle, and no two connect attempts both succeed (no second connection is
\* opened).
C6_OneSharedHandle ==
    /\ \A c, d \in CallIds :
          (calls[c].result[1] = "ok" /\ calls[d].result[1] = "ok")
              => calls[c].result = calls[d].result
    /\ Cardinality(Resolved) <= 1

\* C7: two evaluations of the module in one process use the same cache
\* record, the one in global.mongoose, and as long as no attempt has failed
\* the calls made through either of them have invoked the driver's connect at
\* most once.
C7_SharedAcrossReloads ==
    /\ \A m \in Modules : modState[m] = "loaded" => cached[m] = globalMongoose
    /\ Rejected = {} => ConnectInvocations <= 1

C7_Witness ==
    /\ calledVia = Modules
    /\ Len(calls) >= 3
    /\ Rejected = {}
    /\ ConnectInvocations = 1
    /\ \A c \in CallIds : calls[c].result = <<"ok", cache[globalMongoose].conn>>
    /\ \E c \in CallIds : calls[c].sawConn

\* C8: with the URI absent or empty, every evaluation of the module fails,
\* so connectDB is never callable and the driver's connect is never invoked.
C8_MissingUriNoConnect ==
    uri \in {"absent", "empty"} =>
        /\ \A m \in Modules : modState[m] \in {"unloaded", "failed"}
        /\ globalMongoose = Null
        /\ calls = <<>>
        /\ ConnectInvocations = 0

C8_Witness ==
    /\ uri = "empty"
    /\ \A m \in Modules : modState[m] = "failed"

\* C9: provided every connect attempt eventually settles, every connectDB
\* call eventually completes, with a handle or with the error the driver
\* rejected its attempt with.
CallCompleted(c) ==
    /\ c <= Len(calls)
    /\ calls[c].pc = "done"
    /\ \/ calls[c].result[1] = "ok" /\ calls[c].result[2] \in Handles
       \/ /\ calls[c].result[1] = "err"
          /\ calls[c].att # Null
          /\ calls[c].result[2] = attempts[calls[c].att].value
          /\ attempts[calls[c].att].outcome = "rejected"

C9_EveryCallCompletes ==
    \A c \in 1..MaxCalls : (c <= Len(calls)) ~> CallCompleted(c)

C9_Witness ==
    /\ Len(calls) >= 3
    /\ \A c \in CallIds : calls[c].pc = "done"
    /\ \E c, d \in CallIds :
          /\ calls[c].att # Null /\ calls[c].result[1] = "err"
          /\ calls[d].att # Null /\ calls[d].result[1] = "ok"
          /\ ~calls[c].started

\* C10: once a cache record's conn field holds a handle it never becomes null
\* again and never changes to a different handle.
C10_ConnectedTerminal ==
    [][ \A r \in 1..Len(cache) :
            cache[r].conn # NoValue => cache'[r].conn = cache[r].conn ]_vars

\* A step in which call c resumes from its await (line 61) with the promise
\* it awaited rejected: its catch block (lines 62-65) runs.
FailureHandlerStep(c) ==
    /\ calls[c].pc = "await"
    /\ calls'[c].pc = "done"
    /\ attempts[calls[c].att].state = "rejected"

\* A step in which connectDB is called: the new call is the last of calls'.
CallStep == Len(calls') = Len(calls) + 1

\* C11: the cache does not stay stuck on a failed attempt: when a caller's
\* failure handler has run (the failure is delivered to it) the promise field
\* of its cache record is null, and a rejected attempt none of whose callers
\* is still suspended is never the value of a promise field.
C11_NotStuckOnFailure ==
    /\ [][ \A c \in CallIds :
              FailureHandlerStep(c) => cache'[calls[c].rec].promise = Null ]_vars
    /\ [](\A a \in AttemptIds :
              (attempts[a].state = "rejected"
                  /\ \A c \in CallIds : calls[c].att = a => calls[c].pc = "done")
              => \A r \in 1..Len(cache) : cache[r].promise # a)

C11_Witness ==
    /\ attempts # <<>>
    /\ attempts[1].state = "rejected"
    /\ Cardinality({c \in CallIds : calls[c].att = 1 /\ calls[c].pc = "done"}) >= 2
    /\ \A c \in CallIds : calls[c].att = 1 => calls[c].pc = "done"
    /\ cache[1].promise = Null

\* C12: the failure path writes only the promise field: a step in which a
\* caller's failure handler runs leaves the conn field of every cache record
\* unchanged, and as long as no attempt has been resolved every conn field is
\* still null (also after all callers of a failed attempt have resumed).
C12_FailureKeepsHandle ==
    /\ [][ \A c \in CallIds :
              FailureHandlerStep(c) =>
                  \A r \in 1..Len(cache) : cache'[r].conn = cache[r].conn ]_vars
    /\ [](Resolved = {} => \A r \in 1..Len(cache) : cache[r].conn = NoValue)

C12_Witness ==
    /\ Rejected # {}
    /\ Resolved = {}
    /\ Cardinality({c \in CallIds : calls[c].pc = "done" /\ calls[c].result[1] = "err"}) >= 2
    /\ \A c \in CallIds : calls[c].pc = "done"
    /\ \A r \in 1..Len(cache) : cache[r].conn = NoValue

\* C13: a connectDB call made while its cache record holds a handle returns
\* that handle without suspending: it is complete within the calling step,
\* no job is queued for it, the driver's connect is not invoked, and conn and
\* promise of every record are unchanged.
C13_FastPath ==
    [][ CallStep =>
          LET n == Len(calls')
              r == calls'[n].rec
          IN cache[r].conn # NoValue =>
                /\ calls'[n].pc = "done"
                /\ calls'[n].result = <<"ok", cache[r].conn>>
                /\ ~calls'[n].started
                /\ attempts' = attempts
                /\ queue' = queue
                /\ cache' = cache ]_vars

C13_Witness ==
    \E c \in CallIds :
        /\ calls[c].sawConn
        /\ calls[c].pc = "done"
        /\ calls[c].result = <<"ok", cache[calls[c].rec].conn>>
        /\ cache[calls[c].rec].promise # Null
        /\ ConnectInvocations = 1

\* C14: in every reachable state, a cache record whose conn field holds a
\* handle also has a promise field that is not null.
C14_PromiseRetained ==
    \A r \in 1..Len(cache) : cache[r].conn # NoValue => cache[r].promise # Null

\* C15: whenever a caller's failure handler runs, the promise field it clears
\* is null already or holds the failed attempt that this caller awaited; it
\* never clears a newer attempt started by a retrying caller.
C15_ClearsOwnAttemptOnly ==
    [][ \A c \in CallIds :
            FailureHandlerStep(c) =>
                cache[calls[c].rec].promise \in {Null, calls[c].att} ]_vars

\* C16: a module evaluation never replaces an existing process-wide slot:
\* global.mongoose changes only from undefined, and an evaluation that finds
\* it set adopts that record and leaves the slot and every record's conn and
\* promise unchanged.
C16_InitKeepsSlot ==
    [][ /\ globalMongoose # Null => globalMongoose' = globalMongoose
        /\ \A m \in Modules :
              (modState[m] = "unloaded" /\ modState'[m] = "loaded"
                  /\ globalMongoose # Null) =>
                    /\ cached'[m] = globalMongoose
                    /\ cache' = cache ]_vars

C16_Witness ==
    /\ \A m \in Modules : modState[m] = "loaded" /\ cached[m] = globalMongoose
    /\ calledVia = {1}
    /\ cache[globalMongoose].conn # NoValue
    /\ cache[globalMongoose].promise # Null
    /\ Len(cache) = 1

====
